---------------------------- MODULE Spec2Model ----------------------------
(***************************************************************************)
(* A model of the world loader (src/database/data_loader.py) and of the   *)
(* item instantiation and attachment tool (src/database/create_item.py)   *)
(* of the multi-user dungeon, run against a key-value store of five       *)
(* tables: exits, rooms, archetypes, prototypes, items.                   *)
(***************************************************************************)
EXTENDS Integers, Sequences, FiniteSets, TLC

(***************************************************************************)
(* Python values.  Every value carries its type in k, so that the         *)
(* isinstance tests of the code are tests of k.  A float and a Decimal    *)
(* hold their value in tenths (0.5 is 5), an int holds it as it is.       *)
(***************************************************************************)
PyNone == [k |-> "None", v |-> 0]
PyStr(s) == [k |-> "str", v |-> s]
PyBool(b) == [k |-> "bool", v |-> b]
PyInt(n) == [k |-> "int", v |-> n]
PyFloat(t) == [k |-> "float", v |-> t]
Decimal(t) == [k |-> "Decimal", v |-> t]
PyList(q) == [k |-> "list", v |-> q]
PyDict(f) == [k |-> "dict", v |-> f]

EmptyDict == PyDict(<<>>)
EmptyList == PyList(<<>>)

\* dict.get(key, default)
Get(d, key, default) == IF key \in DOMAIN d.v THEN d.v[key] ELSE default

\* Python truthiness of a value: `if not x`.
Truthy(x) ==
    CASE x.k = "None" -> FALSE
      [] x.k = "bool" -> x.v
      [] x.k = "str" -> x.v # ""
      [] x.k = "list" -> Len(x.v) > 0
      [] x.k = "dict" -> DOMAIN x.v # {}
      [] OTHER -> x.v # 0

\* Decimal(str(x)) of a number x: the decimal with x's printed digits.
DecimalOfStr(x) ==
    CASE x.k = "Decimal" -> x
      [] x.k = "float" -> Decimal(x.v)
      [] x.k = "int" -> Decimal(10 * x.v)

\* int(x) of a number x (truncation towards zero of a non-negative value).
IntOf(x) ==
    CASE x.k = "int" -> x.v
      [] x.k = "Decimal" -> x.v \div 10
      [] x.k = "float" -> x.v \div 10

\* Mutant: only a float at the top is converted.
convert_top_level_only(data) == IF data.k = "float" THEN Decimal(data.v) ELSE data

RECURSIVE convert_to_dynamodb_format(_)
convert_to_dynamodb_format(data) ==
    CASE data.k = "dict" ->
             PyDict([f \in DOMAIN data.v |-> convert_to_dynamodb_format(data.v[f])])
      [] data.k = "list" ->
             PyList([i \in DOMAIN data.v |-> convert_to_dynamodb_format(data.v[i])])
      [] data.k = "float" -> Decimal(data.v)
      [] OTHER -> data

(***************************************************************************)
(* The store.  A table is a function from key values to records.  A       *)
(* number is held as the store's exact number type, so an int that is     *)
(* written is a Decimal when it is read; a float is refused by the        *)
(* client before any request is sent.                                     *)
(***************************************************************************)
RECURSIVE HasFloat(_)
HasFloat(x) ==
    CASE x.k = "dict" -> \E f \in DOMAIN x.v : HasFloat(x.v[f])
      [] x.k = "list" -> \E i \in DOMAIN x.v : HasFloat(x.v[i])
      [] OTHER -> x.k = "float"

RECURSIVE Serialize(_)
Serialize(x) ==
    CASE x.k = "dict" -> PyDict([f \in DOMAIN x.v |-> Serialize(x.v[f])])
      [] x.k = "list" -> PyList([i \in DOMAIN x.v |-> Serialize(x.v[i])])
      [] x.k = "int" -> Decimal(10 * x.v)
      [] OTHER -> x

\* The key value of a record's key attribute: a number or a string.
KeyOf(x) == IF x.k = "str" THEN x.v ELSE IntOf(x)

TablePut(table, key, rec) ==
    [x \in DOMAIN table \cup {key} |-> IF x = key THEN Serialize(rec) ELSE table[x]]

TableDelete(table, key) == [x \in DOMAIN table \ {key} |-> table[x]]

\* get_item: the response's "Item", or the empty dict of response.get("Item", {}).
TableGet(table, key) == IF key \in DOMAIN table THEN table[key] ELSE EmptyDict

\* Mutant: the update replaces the record by its key and the one attribute.
TableUpdateReplacing(table, key, keyAttr, attr, value) ==
    [x \in DOMAIN table \cup {key} |->
        IF x = key
        THEN PyDict((keyAttr :> Serialize(PyInt(key))) @@ (attr :> Serialize(value)))
        ELSE table[x]]

\* update_item with SET attr = value: creates the record when the key is new.
TableUpdate(table, key, keyAttr, attr, value) ==
    LET old == IF key \in DOMAIN table
               THEN table[key].v
               ELSE (keyAttr :> Serialize(PyInt(key)))
        new == [f \in DOMAIN old \cup {attr} |->
                   IF f = attr THEN Serialize(value) ELSE old[f]]
    IN  [x \in DOMAIN table \cup {key} |-> IF x = key THEN PyDict(new) ELSE table[x]]

\* update_item with SET attr = if_not_exists(attr, value): the attribute keeps
\* the value it has; the record is created when the key is new.
TableUpdateIfNotExists(table, key, keyAttr, attr, value) ==
    IF key \in DOMAIN table /\ attr \in DOMAIN table[key].v
    THEN table
    ELSE TableUpdate(table, key, keyAttr, attr, value)

\* The keys of a sequence of records, in order.
Keys(recs, keyAttr) == [i \in DOMAIN recs |-> KeyOf(recs[i].v[keyAttr])]

HasDuplicates(q) == \E i, j \in DOMAIN q : i # j /\ q[i] = q[j]

RECURSIVE PutAll(_, _, _)
PutAll(table, recs, keyAttr) ==
    IF recs = <<>> THEN table
    ELSE PutAll(TablePut(table, KeyOf(Head(recs).v[keyAttr]), Head(recs)),
                Tail(recs), keyAttr)

\* One flush of a batch writer: the records buffered so far go out in one
\* request.  The request is refused as a whole when the store fails, when a
\* record holds a float, or when two records of it have the same key.
BatchWrite(table, recs, keyAttr, storeFails) ==
    IF storeFails \/ HasDuplicates(Keys(recs, keyAttr))
                  \/ \E i \in DOMAIN recs : HasFloat(recs[i])
    THEN table
    ELSE PutAll(table, recs, keyAttr)

(***************************************************************************)
(* The world loader: data_loader.py.  Each store_* function builds one    *)
(* record per entry of its document inside a batch writer.  An entry that *)
(* lacks a field the code indexes raises; the batch writer then still     *)
(* flushes the records built before it, and the later entries are never   *)
(* looked at.  The documents here are shorter than one flush of the batch *)
(* writer, so the records go to the store in one request, on leaving it.  *)
(***************************************************************************)
\* The number of leading entries that have every field of Required.
RECURSIVE GoodPrefixLen(_, _)
GoodPrefixLen(entries, Required) ==
    IF entries = <<>> \/ ~(Required \subseteq DOMAIN Head(entries).v)
    THEN 0
    ELSE 1 + GoodPrefixLen(Tail(entries), Required)

ExitFields == {"ExitID", "Direction", "TargetRoom", "Visible"}

exit_item(exit_data) == PyDict([f \in ExitFields |-> exit_data.v[f]])

store_exits(table, exits_data, storeFails) ==
    LET entries == Get(exits_data, "exits", EmptyList).v
        n == GoodPrefixLen(entries, ExitFields)
        built == [i \in 1..n |-> convert_to_dynamodb_format(exit_item(entries[i]))]
    IN  BatchWrite(table, built, "ExitID", storeFails)

RoomFields == {"RoomID", "Area", "Title", "Description", "ExitID"}

room_item(room) ==
    PyDict([f \in RoomFields \cup {"ItemID"} |->
               IF f = "ItemID" THEN Get(room, "ItemID", EmptyList) ELSE room.v[f]])

\* Mutant: a room that is already stored keeps its exits and gains the
\* document's.
store_rooms_appending(table, rooms_data, storeFails) ==
    LET entries == Get(rooms_data, "rooms", EmptyList).v
        n == GoodPrefixLen(entries, RoomFields)
        old(r) == Get(TableGet(table, KeyOf(r.v["RoomID"])), "ExitID", EmptyList).v
        merged(r) == PyDict([f \in DOMAIN r.v |->
                                IF f = "ExitID" THEN PyList(old(r) \o r.v[f].v)
                                ELSE r.v[f]])
        built == [i \in 1..n |->
                     convert_to_dynamodb_format(merged(room_item(entries[i])))]
    IN  BatchWrite(table, built, "RoomID", storeFails)

\* Mutant: a room that is already stored keeps the attributes the new record
\* does not have.
store_rooms_merging(table, rooms_data, storeFails) ==
    LET entries == Get(rooms_data, "rooms", EmptyList).v
        n == GoodPrefixLen(entries, RoomFields)
        old(r) == TableGet(table, KeyOf(r.v["RoomID"])).v
        merged(r) == PyDict([f \in DOMAIN r.v \cup DOMAIN old(r) |->
                                IF f \in DOMAIN r.v THEN r.v[f] ELSE old(r)[f]])
        built == [i \in 1..n |->
                     convert_to_dynamodb_format(merged(room_item(entries[i])))]
    IN  BatchWrite(table, built, "RoomID", storeFails)

store_rooms(table, rooms_data, storeFails) ==
    LET entries == Get(rooms_data, "rooms", EmptyList).v
        n == GoodPrefixLen(entries, RoomFields)
        built == [i \in 1..n |-> convert_to_dynamodb_format(room_item(entries[i]))]
    IN  BatchWrite(table, built, "RoomID", storeFails)

archetype_item(name, archetype) ==
    PyDict([f \in {"ArchetypeName", "Description", "Attributes", "Abilities"} |->
               CASE f = "ArchetypeName" -> PyStr(name)
                 [] f = "Description" -> Get(archetype, "Description", PyStr(""))
                 [] f = "Attributes" -> Get(archetype, "Attributes", EmptyDict)
                 [] f = "Abilities" -> Get(archetype, "Abilities", EmptyDict)])

\* The items() of a dict as a sequence of its keys (the keys are distinct, so
\* the order of the puts does not show in the table).
RECURSIVE SeqOfSet(_)
SeqOfSet(S) ==
    IF S = {} THEN <<>>
    ELSE LET x == CHOOSE y \in S : TRUE IN <<x>> \o SeqOfSet(S \ {x})

store_archetypes(table, archetypes_data, storeFails) ==
    LET archetypes == Get(archetypes_data, "archetypes", EmptyDict).v
        names == SeqOfSet(DOMAIN archetypes)
        built == [i \in DOMAIN names |->
                     convert_to_dynamodb_format(
                         archetype_item(names[i], archetypes[names[i]]))]
    IN  BatchWrite(table, built, "ArchetypeName", storeFails)

\* prototype["PrototypeID"] = prototype.pop("PrototypeID") leaves the entry as
\* it is and raises when the entry has no PrototypeID.
store_item_prototypes(table, prototypes_data, storeFails) ==
    LET entries == Get(prototypes_data, "itemPrototypes", EmptyList).v
        n == GoodPrefixLen(entries, {"PrototypeID"})
        built == [i \in 1..n |-> convert_to_dynamodb_format(entries[i])]
    IN  BatchWrite(table, built, "PrototypeID", storeFails)

(***************************************************************************)
(* Item instantiation: create_item.py.                                    *)
(***************************************************************************)
\* Mutant: the item takes its prototype's identity as its own.
new_item_id_of_prototype(prototype, id) == Get(prototype, "PrototypeID", PyStr("No ID"))

\* The "ItemID" of a new item: the identifier drawn for it (line 103).
new_item_id(prototype, id) == id

\* str(uuid.uuid4()) for the n-th identifier drawn: uuid4 is modelled as never
\* repeating a value.
uuid4(n) == PyStr("uuid-" \o ToString(n))

ItemFields ==
    {"ItemID", "PrototypeID", "Name", "Description", "Mass", "Value", "Stackable",
     "MaxStack", "Quantity", "Wearable", "WornOn", "Verbs", "Overrides",
     "TraitMods", "Container", "IsPrototype", "IsWorn", "CanPickUp", "Contents",
     "Metadata"}

create_new_item_from_prototype(prototype, id) ==
    LET trait_mods == Get(prototype, "trait_mods", EmptyDict).v IN
    PyDict([f \in ItemFields |->
        CASE f = "ItemID" -> new_item_id(prototype, id)
          [] f = "PrototypeID" -> Get(prototype, "PrototypeID", PyStr("No ID"))
          [] f = "Name" -> Get(prototype, "name", PyStr("Unnamed Item"))
          [] f = "Description" -> Get(prototype, "description", PyStr(""))
          [] f = "Mass" -> DecimalOfStr(Get(prototype, "mass", PyInt(0)))
          [] f = "Value" -> DecimalOfStr(Get(prototype, "value", PyInt(0)))
          [] f = "Stackable" -> Get(prototype, "stackable", PyBool(FALSE))
          [] f = "MaxStack" -> DecimalOfStr(Get(prototype, "max_stack", PyInt(1)))
          [] f = "Quantity" -> Decimal(10)
          [] f = "Wearable" -> Get(prototype, "wearable", PyBool(FALSE))
          [] f = "WornOn" -> Get(prototype, "worn_on", EmptyList)
          [] f = "Verbs" -> Get(prototype, "verbs", EmptyDict)
          [] f = "Overrides" -> Get(prototype, "overrides", EmptyDict)
          [] f = "TraitMods" ->
                 PyDict([t \in DOMAIN trait_mods |-> DecimalOfStr(trait_mods[t])])
          [] f = "Container" -> Get(prototype, "container", PyBool(FALSE))
          [] f = "IsPrototype" -> PyBool(FALSE)
          [] f = "IsWorn" -> PyBool(FALSE)
          [] f = "CanPickUp" -> Get(prototype, "can_pick_up", PyBool(TRUE))
          [] f = "Contents" -> Get(prototype, "contents", EmptyList)
          [] f = "Metadata" -> Get(prototype, "metadata", EmptyDict)])

(***************************************************************************)
(* The authored world the attachment tool is run against: two rooms, and  *)
(* two prototypes, one with PascalCase and one with camelCase field names.*)
(***************************************************************************)
Room(id, title, exitIds) ==
    PyDict([f \in RoomFields |->
               CASE f = "RoomID" -> PyInt(id)
                 [] f = "Area" -> PyStr("Keep")
                 [] f = "Title" -> PyStr(title)
                 [] f = "Description" -> PyStr("A room.")
                 [] f = "ExitID" -> PyList(exitIds)])

Exit(id, direction, target) ==
    PyDict([f \in ExitFields |->
               CASE f = "ExitID" -> PyStr(id)
                 [] f = "Direction" -> PyStr(direction)
                 [] f = "TargetRoom" -> PyInt(target)
                 [] f = "Visible" -> PyBool(TRUE)])

Torch ==
    PyDict([PrototypeID |-> PyStr("torch-01"), Name |-> PyStr("Torch"),
            Mass |-> PyFloat(5), Stackable |-> PyBool(TRUE), MaxStack |-> PyInt(5)])

Rope ==
    PyDict([PrototypeID |-> PyStr("rope-01"), name |-> PyStr("Rope"),
            mass |-> PyFloat(15), stackable |-> PyBool(TRUE), maxStack |-> PyInt(3),
            traitMods |-> PyDict([Strength |-> PyInt(1)])])

Warrior ==
    PyDict([Description |-> PyStr("A fighter."),
            Attributes |-> PyDict([Strength |-> PyFloat(15)]),
            Abilities |-> PyDict([Melee |-> PyInt(2)])])

WorldExits == PyDict([exits |-> PyList(<<Exit("E1", "East", 1)>>)])
WorldRooms ==
    PyDict([rooms |-> PyList(<<Room(1, "Hallway", <<>>),
                              Room(2, "Vault", <<PyStr("E1")>>)>>)])
WorldArchetypes == PyDict([archetypes |-> PyDict([Warrior |-> Warrior])])
WorldPrototypes == PyDict([itemPrototypes |-> PyList(<<Torch, Rope>>)])
TorchOnly == PyDict([itemPrototypes |-> PyList(<<Torch>>)])

EmptyTable == <<>>

(***************************************************************************)
(* Bounds of the model.                                                   *)
(***************************************************************************)
NumCallers == 2     \* concurrent runs of the attachment tool
MaxRuns == 2        \* iterations of the tool's loop, over all callers
PageSize == 2       \* records in one response of a scan

Callers == 1..NumCallers

\* What the operator types at the two prompts: a room number or X (None), and
\* a prototype id or the empty line.
RoomInputs == {PyInt(1), PyInt(2), PyInt(9), PyNone}
PrototypeInputs == {"torch-01", "rope-01", "nope", ""}

VARIABLES
    exits, rooms, archetypes, prototypes, items,    \* the tables of the store
    pc,                 \* where each caller of create_item.main is
    entered_room_id,    \* main's room_id: what prompt_for_room returned
    entered_prototype_id, \* main's prototype_id: what prompt_for_prototype returned
    room,               \* main's room: the record the rooms scan gave
    selected_prototype, \* main's selected_prototype
    new_item,           \* main's new_item
    current_item_ids,   \* add_item_to_room's list, read and appended to
    result,             \* what the last attach of the caller reported
    calls,              \* the store calls of the caller's current attach
    uuids,              \* how many identifiers uuid4 has drawn
    runs,               \* how many iterations of main's loop have begun
    lpc,                \* where data_loader.main is
    docs,               \* the four documents load_json reads (None: unreadable)
    loads,              \* how many runs of data_loader.main have ended
    clean,              \* no store_* call of the loader was refused so far
    failed,             \* the kinds whose store call failed in this run
    loaded,             \* what the load_* functions returned in this run
    after_first         \* the four loaded tables as the first run left them

storeVars == <<exits, rooms, archetypes, prototypes, items>>
callerVars == <<pc, entered_room_id, entered_prototype_id, room,
                selected_prototype, new_item, current_item_ids,
                result, calls>>
loaderVars == <<lpc, docs, loads, clean, failed, loaded, after_first>>
vars == <<storeVars, callerVars, uuids, runs, loaderVars>>

\* The world as the loader stores it, and no item yet.
LoadedWorld(prototypes_data) ==
    /\ exits = store_exits(EmptyTable, WorldExits, FALSE)
    /\ rooms = store_rooms(EmptyTable, WorldRooms, FALSE)
    /\ archetypes = store_archetypes(EmptyTable, WorldArchetypes, FALSE)
    /\ prototypes = store_item_prototypes(EmptyTable, prototypes_data, FALSE)
    /\ items = EmptyTable

\* No caller has begun a run of main's loop.
CallersAtStart ==
    /\ pc = [p \in Callers |-> "start"]
    /\ entered_room_id = [p \in Callers |-> PyNone]
    /\ entered_prototype_id = [p \in Callers |-> PyNone]
    /\ room = [p \in Callers |-> PyNone]
    /\ selected_prototype = [p \in Callers |-> PyNone]
    /\ new_item = [p \in Callers |-> PyNone]
    /\ current_item_ids = [p \in Callers |-> PyNone]
    /\ result = [p \in Callers |-> "none"]
    /\ calls = [p \in Callers |-> <<>>]
    /\ runs = 0

\* No caller has begun, and uuid4 has drawn no identifier.
CallersIdle == CallersAtStart /\ uuids = 0

\* The kinds of entity the loader stores and reads back.
Kinds == {"exits", "rooms", "archetypes", "prototypes"}

\* Nothing has been read back; read is the set of kinds whose scan answered.
NotLoaded ==
    [exits |-> <<>>, rooms |-> <<>>, archetypes |-> <<>>, prototypes |-> <<>>,
     read |-> {}]

\* The loader is not running.
LoaderIdle ==
    /\ lpc = "idle"
    /\ docs = [exits |-> WorldExits, rooms |-> WorldRooms,
               archetypes |-> WorldArchetypes, prototypes |-> WorldPrototypes]
    /\ loads = 0
    /\ clean = TRUE
    /\ failed = {}
    /\ loaded = NotLoaded
    /\ after_first = <<>>

\* Concurrent callers share a world with the one prototype Torch.
Init == LoadedWorld(TorchOnly) /\ CallersIdle /\ LoaderIdle

\* The single caller has both prototypes to choose from.
InitSolo == LoadedWorld(WorldPrototypes) /\ CallersIdle /\ LoaderIdle

\* The records of the table.
Records(table) == {table[x] : x \in DOMAIN table}

\* table.scan(), called once: the "Items" of the response are the records of
\* the first page, which is the whole table only when the table fits in one
\* page.  Which records the store puts on the first page is its choice.
ScanKeys(table) ==
    IF Cardinality(DOMAIN table) <= PageSize
    THEN {DOMAIN table}
    ELSE {K \in SUBSET DOMAIN table : Cardinality(K) = PageSize}

Scan(table) == {{table[x] : x \in K} : K \in ScanKeys(table)}

\* Mutant: the tool ends when the selection matches nothing.
after_not_found_exit == "exit"

\* After "Room not found." or "Prototype not found.": continue, which is the
\* next iteration of main's loop.
after_not_found == "start"

\* display_rooms, prompt_for_room and the lookup of the room in the scan:
\* lines 262-276 of main.
DisplayRooms(p) ==
    /\ pc[p] = "start"
    /\ runs < MaxRuns
    /\ runs' = runs + 1
    /\ \E fails \in BOOLEAN, room_id \in RoomInputs, items_of_response \in Scan(rooms) :
        LET listed == IF fails THEN {} ELSE items_of_response
            found == {r \in listed : IntOf(r.v["RoomID"]) = room_id.v}
        IN  /\ entered_room_id' = [entered_room_id EXCEPT ![p] =
                   IF listed = {} THEN PyNone ELSE room_id]
            /\ IF listed = {} \/ room_id = PyNone
                  THEN /\ pc' = [pc EXCEPT ![p] = "exit"]
                       /\ room' = [room EXCEPT ![p] = PyNone]
                  ELSE IF found = {}
                  THEN /\ pc' = [pc EXCEPT ![p] = after_not_found]
                       /\ room' = [room EXCEPT ![p] = PyNone]
                  ELSE /\ pc' = [pc EXCEPT ![p] = "prototypes"]
                       /\ room' = [room EXCEPT ![p] = CHOOSE r \in found : TRUE]
    /\ entered_prototype_id' = [entered_prototype_id EXCEPT ![p] = PyNone]
    /\ selected_prototype' = [selected_prototype EXCEPT ![p] = PyNone]
    /\ new_item' = [new_item EXCEPT ![p] = PyNone]
    /\ current_item_ids' = [current_item_ids EXCEPT ![p] = PyNone]
    /\ result' = [result EXCEPT ![p] = "none"]
    /\ calls' = [calls EXCEPT ![p] = <<>>]
    /\ UNCHANGED <<storeVars, uuids, loaderVars>>

\* display_prototypes, prompt_for_prototype, the lookup of the prototype and
\* create_new_item_from_prototype: lines 278-296 of main.
DisplayPrototypes(p) ==
    /\ pc[p] = "prototypes"
    /\ \E fails \in BOOLEAN, prototype_id \in PrototypeInputs,
          items_of_response \in Scan(prototypes) :
        LET listed == IF fails THEN {} ELSE items_of_response
            found == {q \in listed : Get(q, "PrototypeID", PyNone) = PyStr(prototype_id)}
        IN  /\ entered_prototype_id' = [entered_prototype_id EXCEPT ![p] =
                   IF listed = {} THEN PyNone ELSE PyStr(prototype_id)]
            /\ IF listed = {} \/ prototype_id = "" \/ found = {}
                  THEN /\ pc' = [pc EXCEPT ![p] = after_not_found]
                       /\ UNCHANGED <<selected_prototype, new_item, uuids>>
                  ELSE LET chosen == CHOOSE q \in found : TRUE IN
                       /\ pc' = [pc EXCEPT ![p] = "put"]
                       /\ selected_prototype' = [selected_prototype EXCEPT ![p] = chosen]
                       /\ uuids' = uuids + 1
                       /\ new_item' = [new_item EXCEPT ![p] =
                              create_new_item_from_prototype(chosen, uuid4(uuids + 1))]
    /\ UNCHANGED <<storeVars, entered_room_id, room, current_item_ids, result, calls, runs,
                   loaderVars>>

\* The key put_item stores the item under: the items table's key is ItemID.
put_item_key(item) == KeyOf(item.v["ItemID"])

\* Mutant: the attach goes on to the room after a failed item write.
AddItemToTableGoesOn(p) ==
    /\ pc[p] = "put"
    /\ \E fails \in BOOLEAN :
        IF fails
           THEN /\ calls' = [calls EXCEPT ![p] = Append(@, "put_item:error")]
                /\ pc' = [pc EXCEPT ![p] = "get"]
                /\ UNCHANGED items
           ELSE /\ calls' = [calls EXCEPT ![p] = Append(@, "put_item:ok")]
                /\ pc' = [pc EXCEPT ![p] = "get"]
                /\ items' = TablePut(items, put_item_key(new_item[p]), new_item[p])
    /\ UNCHANGED <<exits, rooms, archetypes, prototypes, room, selected_prototype,
                   new_item, current_item_ids, result, uuids, runs,
                   loaderVars,
                   entered_room_id, entered_prototype_id>>

\* add_item_to_table, and main's continue when it fails: lines 298-302.
AddItemToTable(p) ==
    /\ pc[p] = "put"
    /\ \E fails \in BOOLEAN :
        IF fails
           THEN /\ calls' = [calls EXCEPT ![p] = Append(@, "put_item:error")]
                /\ pc' = [pc EXCEPT ![p] = "return_false"]
                /\ UNCHANGED items
           ELSE /\ calls' = [calls EXCEPT ![p] = Append(@, "put_item:ok")]
                /\ pc' = [pc EXCEPT ![p] = "get"]
                /\ items' = TablePut(items, put_item_key(new_item[p]), new_item[p])
    /\ UNCHANGED <<exits, rooms, archetypes, prototypes, room, selected_prototype,
                   new_item, current_item_ids, result, uuids, runs,
                   loaderVars,
                   entered_room_id, entered_prototype_id>>

\* int(room.get("RoomID", 0))
room_id_of(r) == IntOf(Get(r, "RoomID", PyInt(0)))

\* Mutant: the new ItemID is not appended.
appended_nothing(ids, item_id) == ids

\* current_item_ids.append(item_id)
appended(ids, item_id) == PyList(Append(ids.v, item_id))

\* Mutant: the room is the record the earlier scan gave.
get_scanned_room(table, scanned) == scanned

\* rooms_table.get_item(Key={"RoomID": room_id}) and response.get("Item", {}):
\* the room as the store holds it now.
get_current_room(table, scanned) == TableGet(table, room_id_of(scanned))

\* add_item_to_room up to the append: lines 193-229.  The list read from the
\* store is None, a string, a list or something else.
GetRoom(p) ==
    /\ pc[p] = "get"
    /\ \E fails \in BOOLEAN :
        LET current_room == get_current_room(rooms, room[p])
            read == Get(current_room, "ItemIDs", EmptyList)
            ids == CASE read.k = "None" -> EmptyList
                     [] read.k = "str" -> PyList(<<read>>)
                     [] OTHER -> read
            item_id == Get(new_item[p], "ItemID", PyNone)
        IN  IF fails
               THEN /\ calls' = [calls EXCEPT ![p] = Append(@, "get_item:error")]
                    /\ pc' = [pc EXCEPT ![p] = "return_false"]
                    /\ UNCHANGED current_item_ids
               ELSE /\ calls' = [calls EXCEPT ![p] = Append(@,
                           IF Truthy(current_room) THEN "get_item:ok" ELSE "get_item:absent")]
                    /\ IF ~Truthy(current_room) \/ ids.k # "list" \/ ~Truthy(item_id)
                       THEN /\ pc' = [pc EXCEPT ![p] = "return_false"]
                            /\ UNCHANGED current_item_ids
                       ELSE /\ pc' = [pc EXCEPT ![p] = "update"]
                            /\ current_item_ids' = [current_item_ids EXCEPT ![p] =
                                   appended(ids, item_id)]
    /\ UNCHANGED <<storeVars, room, selected_prototype, new_item, result, uuids,
                   runs, loaderVars,
                   entered_room_id, entered_prototype_id>>

\* Mutant: the write is applied although the call raises.
rooms_after_update_applied(table, room_id, item_ids, fails) ==
    TableUpdate(table, room_id, "RoomID", "ItemIDs", item_ids)

\* Mutant: the new ItemID is appended to the list the store holds at the
\* write, not set from the list read before.
rooms_after_update_merged(table, room_id, item_ids, fails) ==
    LET held == Get(TableGet(table, room_id), "ItemIDs", EmptyList).v
        item_id == item_ids.v[Len(item_ids.v)]
    IN  IF fails THEN table
        ELSE TableUpdate(table, room_id, "RoomID", "ItemIDs",
                         PyList(Append(held, item_id)))

\* The rooms table after update_item with SET ItemIDs = :item_ids, which
\* writes the caller's list whatever the store holds, or raises and writes
\* nothing.
rooms_after_update(table, room_id, item_ids, fails) ==
    IF fails THEN table ELSE TableUpdate(table, room_id, "RoomID", "ItemIDs", item_ids)

\* Mutant: a failed update is taken for a success.
after_update_swallowed(fails) == "return_true"

\* Where add_item_to_room goes after update_item: on to the success return,
\* or into the except branch.
after_update(fails) == IF fails THEN "rollback" ELSE "return_true"

\* The update of the room: lines 231-242.
UpdateRoom(p) ==
    /\ pc[p] = "update"
    /\ \E fails \in BOOLEAN :
        /\ calls' = [calls EXCEPT ![p] =
               Append(@, IF fails THEN "update_item:error" ELSE "update_item:ok")]
        /\ pc' = [pc EXCEPT ![p] = after_update(fails)]
        /\ rooms' = rooms_after_update(rooms, room_id_of(room[p]),
                                       current_item_ids[p], fails)
    /\ UNCHANGED <<exits, archetypes, prototypes, items, room, selected_prototype,
                   new_item, current_item_ids, result, uuids, runs,
                   loaderVars,
                   entered_room_id, entered_prototype_id>>

\* Mutant: the compensating delete takes the first ItemID of the list.
rollback_key_first(item, item_ids) == KeyOf(item_ids.v[1])

\* The key of the compensating delete_item: new_item["ItemID"].
rollback_key(item, item_ids) == KeyOf(item.v["ItemID"])

\* Mutant: a failed compensating delete is tried again.
RollbackRetry(p) ==
    /\ pc[p] = "rollback"
    /\ \E fails \in BOOLEAN :
        IF fails
           THEN /\ calls' = [calls EXCEPT ![p] = Append(@, "delete_item:error")]
                /\ UNCHANGED <<items, pc>>
           ELSE /\ calls' = [calls EXCEPT ![p] = Append(@, "delete_item:ok")]
                /\ items' = TableDelete(items, KeyOf(new_item[p].v["ItemID"]))
                /\ pc' = [pc EXCEPT ![p] = "return_false"]
    /\ UNCHANGED <<exits, rooms, archetypes, prototypes, room, selected_prototype,
                   new_item, current_item_ids, result, uuids, runs,
                   loaderVars,
                   entered_room_id, entered_prototype_id>>

\* The roll back after a failed update: lines 243-249.
Rollback(p) ==
    /\ pc[p] = "rollback"
    /\ \E fails \in BOOLEAN :
        IF fails
           THEN /\ calls' = [calls EXCEPT ![p] = Append(@, "delete_item:error")]
                /\ UNCHANGED items
           ELSE /\ calls' = [calls EXCEPT ![p] = Append(@, "delete_item:ok")]
                /\ items' = TableDelete(items, rollback_key(new_item[p], current_item_ids[p]))
    /\ pc' = [pc EXCEPT ![p] = "return_false"]
    /\ UNCHANGED <<exits, rooms, archetypes, prototypes, room, selected_prototype,
                   new_item, current_item_ids, result, uuids, runs,
                   loaderVars,
                   entered_room_id, entered_prototype_id>>

\* The attach returns to main, which prints the outcome and loops: lines
\* 251-252, 200, 206, 219, 225, 249 and 298-307.
Return(p) ==
    /\ pc[p] \in {"return_true", "return_false"}
    /\ result' = [result EXCEPT ![p] =
                     IF pc[p] = "return_true" THEN "success" ELSE "failure"]
    /\ pc' = [pc EXCEPT ![p] = "start"]
    /\ UNCHANGED <<storeVars, room, selected_prototype, new_item, current_item_ids,
                   calls, uuids, runs, loaderVars,
                   entered_room_id, entered_prototype_id>>

\* A room record the rooms table does not hold.
AbsentRoom == Serialize(Room(9, "Nowhere", <<>>))

\* A caller of the two functions that is not main's loop: a new item of a
\* stored prototype is passed to add_item_to_table and then, with any room
\* record, to add_item_to_room (both take the records as parameters).
AttachTo(p) ==
    /\ pc[p] = "start"
    /\ runs < MaxRuns
    /\ runs' = runs + 1
    /\ \E r \in Records(rooms) \cup {AbsentRoom}, q \in Records(prototypes) :
        /\ room' = [room EXCEPT ![p] = r]
        /\ selected_prototype' = [selected_prototype EXCEPT ![p] = q]
        /\ new_item' = [new_item EXCEPT ![p] =
               create_new_item_from_prototype(q, uuid4(uuids + 1))]
    /\ entered_room_id' = [entered_room_id EXCEPT ![p] = PyNone]
    /\ entered_prototype_id' = [entered_prototype_id EXCEPT ![p] = PyNone]
    /\ uuids' = uuids + 1
    /\ pc' = [pc EXCEPT ![p] = "put"]
    /\ current_item_ids' = [current_item_ids EXCEPT ![p] = PyNone]
    /\ result' = [result EXCEPT ![p] = "none"]
    /\ calls' = [calls EXCEPT ![p] = <<>>]
    /\ UNCHANGED <<storeVars, loaderVars>>

\* Lines 127-153: the rooms table after ensure_item_ids_list(dynamodb, room_id);
\* a refused update_item leaves it as it is (the function returns False).
ensure_item_ids_list(table, room_id, fails) ==
    IF fails THEN table
    ELSE TableUpdateIfNotExists(table, room_id, "RoomID", "ItemIDs", EmptyList)

\* The room numbers ensure_item_ids_list is called with: the rooms of the
\* world and one the table does not hold.
EnsureInputs == {IntOf(x) : x \in RoomInputs \ {PyNone}}

\* A call of ensure_item_ids_list, which main's loop never makes: one
\* update_item on the rooms table.
EnsureItemIdsList ==
    /\ \E room_id \in EnsureInputs, fails \in BOOLEAN :
           rooms' = ensure_item_ids_list(rooms, room_id, fails)
    /\ UNCHANGED <<exits, archetypes, prototypes, items, callerVars, uuids, runs,
                   loaderVars>>

Step(p) ==
    \/ DisplayRooms(p)
    \/ DisplayPrototypes(p)
    \/ AddItemToTable(p)
    \/ GetRoom(p)
    \/ UpdateRoom(p)
    \/ Rollback(p)
    \/ Return(p)

Next == \E p \in Callers : Step(p)

Spec == Init /\ [][Next]_vars

\* The functions are called from main's loop and directly.
NextDirect ==
    \/ \E p \in Callers : Step(p) \/ AttachTo(p)
    \/ EnsureItemIdsList

SpecDirect == Init /\ [][NextDirect]_vars

\* A single caller, and no other client of the store.
NextSolo == Step(1)

SpecSolo == InitSolo /\ [][NextSolo]_vars

(***************************************************************************)
(* data_loader.main: the four documents are read and stored in turn, and  *)
(* the tables are then read back and displayed.  A document that cannot   *)
(* be read raises in main's try, which ends the run.                      *)
(***************************************************************************)
MaxLoads == 2       \* runs of data_loader.main, one after the other

\* Entries that lack a field the loader indexes.
BadExit == PyDict([ExitID |-> PyStr("E3"), Direction |-> PyStr("Up")])
\* An exit the author gave no visibility flag.
UnflaggedExit ==
    PyDict([ExitID |-> PyStr("E3"), Direction |-> PyStr("Up"),
            TargetRoom |-> PyInt(2)])
BadRoom == PyDict([RoomID |-> PyInt(4), Title |-> PyStr("Attic")])
BadPrototype == PyDict([Name |-> PyStr("Nameless")])

\* A room the author gave an ItemID list.
StockedRoom ==
    PyDict([f \in RoomFields \cup {"ItemID"} |->
               IF f = "ItemID" THEN PyList(<<PyStr("crate-1")>>)
               ELSE Room(2, "Store", <<>>).v[f]])

\* A second authoring of torch-01.
Torch2 == PyDict([PrototypeID |-> PyStr("torch-01"), Name |-> PyStr("Lantern")])

\* What load_json can give for each document: PyNone stands for a file that
\* cannot be read or parsed.
ExitDocs ==
    {PyNone, EmptyDict, WorldExits,
     PyDict([exits |-> PyList(<<Exit("E1", "East", 1), Exit("E2", "West", 2)>>)]),
     PyDict([exits |-> PyList(<<Exit("E1", "East", 1), Exit("E1", "West", 2)>>)]),
     PyDict([exits |-> PyList(<<Exit("E2", "West", 2), BadExit, Exit("E1", "East", 1)>>)]),
     PyDict([exits |-> PyList(<<Exit("E2", "West", 2), UnflaggedExit,
                                Exit("E1", "East", 1)>>)])}

RoomDocs ==
    {PyNone, WorldRooms,
     PyDict([rooms |-> PyList(<<Room(1, "Gallery", <<PyStr("E1"), PyStr("E2")>>)>>)]),
     PyDict([rooms |-> PyList(<<Room(1, "Hallway", <<>>), BadRoom,
                                Room(2, "Vault", <<PyStr("E1")>>)>>)]),
     PyDict([rooms |-> PyList(<<Room(1, "Hallway", <<>>), StockedRoom>>)])}

ArchetypeDocs == {PyNone, EmptyDict, WorldArchetypes}

PrototypeDocs ==
    {PyNone, TorchOnly, WorldPrototypes,
     PyDict([itemPrototypes |-> PyList(<<Torch, BadPrototype, Rope>>)]),
     PyDict([itemPrototypes |-> PyList(<<Rope, Torch, Torch2>>)])}

\* No load has been made into the store.
FreshStore ==
    /\ exits = EmptyTable
    /\ rooms = EmptyTable
    /\ archetypes = EmptyTable
    /\ prototypes = EmptyTable
    /\ items = EmptyTable

\* A store in use: an earlier world was loaded with a third room, and an item
\* was made from the stored torch and attached to room 1.
UsedStore ==
    LET stored == store_item_prototypes(EmptyTable, WorldPrototypes, FALSE)
        torch == create_new_item_from_prototype(stored["torch-01"], uuid4(1))
        earlier == PyDict([rooms |-> PyList(<<Room(1, "Hallway", <<>>),
                                             Room(2, "Vault", <<PyStr("E1")>>),
                                             Room(3, "Cellar", <<>>)>>)])
    IN  /\ exits = store_exits(EmptyTable, WorldExits, FALSE)
        /\ rooms = TableUpdate(store_rooms(EmptyTable, earlier, FALSE), 1,
                               "RoomID", "ItemIDs", PyList(<<uuid4(1)>>))
        /\ archetypes = store_archetypes(EmptyTable, WorldArchetypes, FALSE)
        /\ prototypes = stored
        /\ items = TablePut(EmptyTable, KeyOf(uuid4(1)), torch)

\* The identifier of the item in the store in use has been drawn: uuid4 gives
\* it to no later item.
InitLoad ==
    /\ \/ FreshStore /\ uuids = 0
       \/ UsedStore /\ uuids = 1
    /\ CallersAtStart
    /\ lpc = "idle"
    /\ docs \in [exits : ExitDocs, rooms : RoomDocs, archetypes : ArchetypeDocs,
                 prototypes : PrototypeDocs]
    /\ loads = 0
    /\ clean = TRUE
    /\ failed = {}
    /\ loaded = NotLoaded
    /\ after_first = <<>>

\* The run is over: main returns, after the display or from its except clause.
\* (The primed tables are those the step leaves.)
RunEnds ==
    /\ lpc' = "done"
    /\ UNCHANGED failed
    /\ loads' = loads + 1
    /\ after_first' = IF loads = 0
                      THEN <<exits', rooms', archetypes', prototypes'>>
                      ELSE after_first

\* The run goes on with the next document.
RunGoesOn(kind, next, fails) ==
    /\ lpc' = next
    /\ clean' = (clean /\ ~fails)
    /\ failed' = IF fails THEN failed \cup {kind} ELSE failed
    /\ UNCHANGED <<loads, after_first>>

\* {item[keyAttr]: item for item in response.get("Items", [])}
KeyedBy(response_items, keyAttr) ==
    [x \in {KeyOf(r.v[keyAttr]) : r \in response_items} |->
        CHOOSE r \in response_items : KeyOf(r.v[keyAttr]) = x]

\* The load_* functions: one scan each; a scan that fails gives {}.
load_exits(response_items, scanFails) ==
    IF scanFails THEN <<>> ELSE KeyedBy(response_items, "ExitID")

load_rooms(response_items, scanFails) ==
    IF scanFails THEN <<>> ELSE KeyedBy(response_items, "RoomID")

load_archetypes(response_items, scanFails) ==
    IF scanFails THEN <<>>
    ELSE [archetypes |-> KeyedBy(response_items, "ArchetypeName")]

\* The list of the response is held as the set of its records: the store
\* gives them in an order of its own.
load_item_prototypes(response_items, scanFails) ==
    IF scanFails THEN <<>> ELSE [itemPrototypes |-> response_items]

\* A run of main begins.
StartLoad ==
    /\ lpc \in {"idle", "done"}
    /\ loads < MaxLoads
    /\ lpc' = "exits"
    /\ failed' = {}
    /\ loaded' = NotLoaded
    /\ UNCHANGED <<storeVars, callerVars, uuids, runs, docs, loads, clean,
                   after_first>>

\* Lines 341-342: load_json(args.exits), store_exits.
StoreExits ==
    /\ lpc = "exits"
    /\ UNCHANGED <<rooms, archetypes, prototypes, items, callerVars, uuids, runs,
                   docs, loaded>>
    /\ IF docs.exits = PyNone
       THEN UNCHANGED <<exits, clean>> /\ RunEnds
       ELSE \E fails \in BOOLEAN :
                /\ exits' = store_exits(exits, docs.exits, fails)
                /\ RunGoesOn("exits", "rooms", fails)

\* Lines 345-346: load_json(args.rooms), store_rooms.
StoreRooms ==
    /\ lpc = "rooms"
    /\ UNCHANGED <<exits, archetypes, prototypes, items, callerVars, uuids, runs,
                   docs, loaded>>
    /\ IF docs.rooms = PyNone
       THEN UNCHANGED <<rooms, clean>> /\ RunEnds
       ELSE \E fails \in BOOLEAN :
                /\ rooms' = store_rooms(rooms, docs.rooms, fails)
                /\ RunGoesOn("rooms", "archetypes", fails)

\* Lines 349-350: load_json(args.archetypes), store_archetypes.
StoreArchetypes ==
    /\ lpc = "archetypes"
    /\ UNCHANGED <<exits, rooms, prototypes, items, callerVars, uuids, runs, docs, loaded>>
    /\ IF docs.archetypes = PyNone
       THEN UNCHANGED <<archetypes, clean>> /\ RunEnds
       ELSE \E fails \in BOOLEAN :
                /\ archetypes' = store_archetypes(archetypes, docs.archetypes, fails)
                /\ RunGoesOn("archetypes", "prototypes", fails)

\* Lines 353-354: load_json(args.prototypes), store_item_prototypes.
StoreItemPrototypes ==
    /\ lpc = "prototypes"
    /\ UNCHANGED <<exits, rooms, archetypes, items, callerVars, uuids, runs, docs, loaded>>
    /\ IF docs.prototypes = PyNone
       THEN UNCHANGED <<prototypes, clean>> /\ RunEnds
       ELSE \E fails \in BOOLEAN :
                /\ prototypes' = store_item_prototypes(prototypes, docs.prototypes, fails)
                /\ RunGoesOn("prototypes", "load_exits", fails)

\* Lines 357-367: the four tables are read back and printed, one scan each
\* and one step each; a failing read is logged and the run goes on.  Nothing
\* is written.  (The display_* functions print the records the loader
\* stores without raising.)
LoadGoesOn(next) ==
    /\ lpc' = next
    /\ UNCHANGED <<storeVars, callerVars, uuids, runs, docs, clean, failed, loads,
                   after_first>>

\* Lines 357-358: load_exits, display_exits.
LoadExits ==
    /\ lpc = "load_exits"
    /\ \E scanFails \in BOOLEAN, response_items \in Scan(exits) :
           loaded' = [loaded EXCEPT
                         !.exits = load_exits(response_items, scanFails),
                         !.read = IF scanFails THEN @ ELSE @ \cup {"exits"}]
    /\ LoadGoesOn("load_rooms")

\* Lines 360-361: load_rooms, display_rooms.
LoadRooms ==
    /\ lpc = "load_rooms"
    /\ \E scanFails \in BOOLEAN, response_items \in Scan(rooms) :
           loaded' = [loaded EXCEPT
                         !.rooms = load_rooms(response_items, scanFails),
                         !.read = IF scanFails THEN @ ELSE @ \cup {"rooms"}]
    /\ LoadGoesOn("load_archetypes")

\* Lines 363-364: load_archetypes, display_archetypes.
LoadArchetypes ==
    /\ lpc = "load_archetypes"
    /\ \E scanFails \in BOOLEAN, response_items \in Scan(archetypes) :
           loaded' = [loaded EXCEPT
                         !.archetypes = load_archetypes(response_items, scanFails),
                         !.read = IF scanFails THEN @ ELSE @ \cup {"archetypes"}]
    /\ LoadGoesOn("load_prototypes")

\* Lines 366-367: load_item_prototypes, display_item_prototypes; main returns.
LoadItemPrototypes ==
    /\ lpc = "load_prototypes"
    /\ UNCHANGED <<storeVars, callerVars, uuids, runs, docs, clean>>
    /\ \E scanFails \in BOOLEAN, response_items \in Scan(prototypes) :
           loaded' = [loaded EXCEPT
                         !.prototypes = load_item_prototypes(response_items, scanFails),
                         !.read = IF scanFails THEN @ ELSE @ \cup {"prototypes"}]
    /\ RunEnds

NextLoad ==
    \/ StartLoad
    \/ StoreExits
    \/ StoreRooms
    \/ StoreArchetypes
    \/ StoreItemPrototypes
    \/ LoadExits
    \/ LoadRooms
    \/ LoadArchetypes
    \/ LoadItemPrototypes

SpecLoad == InitLoad /\ [][NextLoad]_vars

\* The loader beside the other clients of the store: each store request of
\* the loader is a step, and the attach runs and ensure_item_ids_list take
\* their steps between them.
NextAll == NextLoad \/ NextDirect

SpecAll == InitLoad /\ [][NextAll]_vars

(***************************************************************************)
(* What the claims speak of.                                              *)
(***************************************************************************)
\* The item-reference list of the room with this RoomID, as a get returns it.
ItemIDsOf(room_id) == Get(TableGet(rooms, room_id), "ItemIDs", EmptyList).v
Refs(room_id) == {ItemIDsOf(room_id)[i] : i \in DOMAIN ItemIDsOf(room_id)}
ItemIDsAfter(room_id) == Get(TableGet(rooms', room_id), "ItemIDs", EmptyList).v
RefsAfter(room_id) == {ItemIDsAfter(room_id)[i] : i \in DOMAIN ItemIDsAfter(room_id)}

ItemIdOf(p) == new_item[p].v["ItemID"]
ItemKeyOf(p) == KeyOf(ItemIdOf(p))
TargetOf(p) == room_id_of(room[p])

Called(p, call) == \E i \in DOMAIN calls[p] : calls[p][i] = call
LastCall(p) == IF calls[p] = <<>> THEN "" ELSE calls[p][Len(calls[p])]
Deletes(p) == {i \in DOMAIN calls[p] : calls[p][i] \in {"delete_item:ok", "delete_item:error"}}
\* The attach of caller p is over: it is about to return failure, or has returned.
Ended(p) == pc[p] \in {"return_false", "start"}

\* C1: in every reachable state, under any interleaving of attach runs and
\* any failing store calls, every ItemID in a room's item-reference list is
\* the key of a record of the items table.
C1_RoomRefsExist ==
    \A r \in DOMAIN rooms : \A x \in Refs(r) : KeyOf(x) \in DOMAIN items

\* A room references an item while another run has rolled its item back.
C1_Witness ==
    \E r \in DOMAIN rooms, p \in Callers :
        /\ Refs(r) # {}
        /\ LastCall(p) = "delete_item:ok"

\* C2: for a single caller, once attach has reported success for item I and
\* room R, a get of I's ItemID returns I and R's item-reference list contains
\* I's ItemID.
C2_AttachSuccess ==
    \A p \in Callers :
        result[p] = "success" =>
            /\ TableGet(items, ItemKeyOf(p)) = new_item[p]
            /\ ItemIdOf(p) \in Refs(TargetOf(p))

\* The second successful attach to a room: the list holds two ItemIDs.
C2_Witness ==
    /\ result[1] = "success"
    /\ Len(ItemIDsOf(TargetOf(1))) = 2

\* C3: when the item write succeeded, the room update failed and the
\* compensating delete succeeded, attach reports failure, the new ItemID is
\* absent from the items table and the room's list is the one read before.
C3_RollbackRestores ==
    \A p \in Callers :
        (Called(p, "update_item:error") /\ LastCall(p) = "delete_item:ok") =>
            /\ pc[p] = "return_false" \/ (pc[p] = "start" /\ result[p] = "failure")
            /\ ItemKeyOf(p) \notin DOMAIN items
            /\ PyList(Append(ItemIDsOf(TargetOf(p)), ItemIdOf(p))) = current_item_ids[p]

\* A rolled-back attach to a room that already references an item.
C3_Witness ==
    /\ Called(1, "update_item:error") /\ LastCall(1) = "delete_item:ok"
    /\ result[1] = "failure"
    /\ Len(ItemIDsOf(TargetOf(1))) = 1

\* C4: when the item write succeeded and the read of the room finds no room,
\* attach reports failure and issues the compensating delete, after which
\* (when the delete succeeds) the items table no longer holds the new ItemID.
C4_RollbackWhenRoomAbsent ==
    \A p \in Callers :
        (Ended(p) /\ Called(p, "put_item:ok") /\ Called(p, "get_item:absent")) =>
            /\ pc[p] = "start" => result[p] = "failure"
            /\ Deletes(p) # {}
            /\ Called(p, "delete_item:ok") => ItemKeyOf(p) \notin DOMAIN items

\* C5 as stated: at the moment an attach returns success, the items table
\* holds its Item and the target room's list contains its ItemID (so a run
\* that ends in any other state returns failure).
C5_SuccessAtReturn ==
    [][\A p \in Callers :
          (pc[p] = "return_true" /\ pc'[p] = "start") =>
              /\ ItemKeyOf(p) \in DOMAIN items
              /\ ItemIdOf(p) \in Refs(TargetOf(p))]_vars

\* C5 amended: at the moment the room update of an attach succeeds, the
\* items table holds its Item and the room's list contains its ItemID; an
\* attach returns success exactly when its room update succeeded, and the
\* Item is then still in the items table.
C5_SuccessAtUpdate ==
    [][\A p \in Callers :
          /\ (pc[p] = "update" /\ pc'[p] = "return_true") =>
                 /\ ItemKeyOf(p) \in DOMAIN items'
                 /\ ItemIdOf(p) \in RefsAfter(TargetOf(p))
          /\ (pc[p] \in {"return_true", "return_false"} /\ pc'[p] = "start") =>
                 /\ result'[p] = "success" <=> LastCall(p) = "update_item:ok"
                 /\ result'[p] = "failure" <=> LastCall(p) # "update_item:ok"
                 /\ result'[p] = "success" => ItemKeyOf(p) \in DOMAIN items]_vars

\* One attach is about to return success while another has had a store call
\* fail.
C5_Witness ==
    \E p, q \in Callers :
        /\ p # q
        /\ pc[p] = "return_true"
        /\ LastCall(q) \in {"update_item:error", "delete_item:error", "get_item:error"}

\* C6: when two attach runs on the same room have both read its empty list
\* and both reported success, both Item records are in the items table and
\* the room's list does not contain both ItemIDs: the later unconditional
\* write replaced the earlier writer's list.
C6_LastWriterWins ==
    \A p, q \in Callers :
        (/\ p # q
         /\ result[p] = "success" /\ result[q] = "success"
         /\ TargetOf(p) = TargetOf(q)
         /\ Len(current_item_ids[p].v) = 1 /\ Len(current_item_ids[q].v) = 1) =>
            /\ ItemKeyOf(p) \in DOMAIN items
            /\ ItemKeyOf(q) \in DOMAIN items
            /\ ~(ItemIdOf(p) \in Refs(TargetOf(p)) /\ ItemIdOf(q) \in Refs(TargetOf(p)))

\* Both runs have reported success, both Items exist, and the room's list is
\* the second writer's alone.
C6_Witness ==
    /\ result[1] = "success" /\ result[2] = "success"
    /\ TargetOf(1) = TargetOf(2)
    /\ ItemKeyOf(1) \in DOMAIN items /\ ItemKeyOf(2) \in DOMAIN items
    /\ ItemIDsOf(TargetOf(1)) = <<ItemIdOf(2)>>

\* C7: when the room update fails and the compensating delete fails too,
\* attach reports failure, the delete was attempted exactly once, the new Item
\* record is in the items table and no room's list contains its ItemID.
C7_OrphanedItem ==
    \A p \in Callers :
        (Ended(p) /\ Called(p, "update_item:error") /\ Called(p, "delete_item:error")) =>
            /\ pc[p] = "start" => result[p] = "failure"
            /\ Cardinality(Deletes(p)) = 1
            /\ ItemKeyOf(p) \in DOMAIN items
            /\ \A r \in DOMAIN rooms : ItemIdOf(p) \notin Refs(r)

\* The attach has returned failure and left its Item behind.
C7_Witness ==
    /\ pc[1] = "start" /\ result[1] = "failure"
    /\ LastCall(1) = "delete_item:error"
    /\ ItemKeyOf(1) \in DOMAIN items

\* The names a prototype document gives a template field of the Item:
\* PascalCase or camelCase.
AuthoredNames(F) ==
    CASE F = "Name" -> {"Name", "name"}
      [] F = "Description" -> {"Description", "description"}
      [] F = "Mass" -> {"Mass", "mass"}
      [] F = "Value" -> {"Value", "value"}
      [] F = "Stackable" -> {"Stackable", "stackable"}
      [] F = "MaxStack" -> {"MaxStack", "maxStack"}
      [] F = "Wearable" -> {"Wearable", "wearable"}
      [] F = "WornOn" -> {"WornOn", "wornOn"}
      [] F = "Verbs" -> {"Verbs", "verbs"}
      [] F = "Overrides" -> {"Overrides", "overrides"}
      [] F = "TraitMods" -> {"TraitMods", "traitMods"}
      [] F = "Container" -> {"Container", "container"}
      [] F = "CanPickUp" -> {"CanPickUp", "canPickUp"}
      [] F = "Metadata" -> {"Metadata", "metadata"}

TemplateFields ==
    {"Name", "Description", "Mass", "Value", "Stackable", "MaxStack", "Wearable",
     "WornOn", "Verbs", "Overrides", "TraitMods", "Container", "CanPickUp",
     "Metadata"}

\* C8: the Item made from a prototype the loader stored has the prototype's
\* value in every template field the prototype gives, Quantity 1 and IsWorn
\* false.
C8_ItemCopiesPrototype ==
    \A p \in Callers :
        new_item[p] # PyNone =>
            /\ \A F \in TemplateFields :
                   \A f \in AuthoredNames(F) \cap DOMAIN selected_prototype[p].v :
                       new_item[p].v[F] = selected_prototype[p].v[f]
            /\ new_item[p].v["Quantity"] = Decimal(10)
            /\ new_item[p].v["IsWorn"] = PyBool(FALSE)

\* C9: every ItemID drawn differs from every PrototypeID and from every
\* ItemID drawn before, so the put of a new Item never overwrites a record
\* and each successful item write adds exactly one record.
C9_FreshItemID ==
    [][\A p \in Callers :
          /\ (pc[p] = "prototypes" /\ pc'[p] = "put") =>
                 /\ new_item'[p].v["ItemID"] \notin {uuid4(n) : n \in 1..uuids}
                 /\ KeyOf(new_item'[p].v["ItemID"]) \notin DOMAIN prototypes
                 /\ KeyOf(new_item'[p].v["ItemID"]) \notin DOMAIN items
          /\ (pc[p] = "put" /\ pc'[p] = "get") =>
                 /\ ItemKeyOf(p) \notin DOMAIN items
                 /\ Cardinality(DOMAIN items') = Cardinality(DOMAIN items) + 1]_vars

\* Two instantiations of the same prototype are both in the items table.
C9_Witness ==
    /\ Cardinality(DOMAIN items) = 2
    /\ \A x, y \in DOMAIN items : items[x].v["PrototypeID"] = items[y].v["PrototypeID"]

\* C10: for every document and every initial state of the tables, when no
\* store call has failed, a second run of the bulk load in a row (and any
\* later one) leaves the exits, rooms, archetypes and prototypes tables
\* exactly as the first run left them.
C10_LoadIdempotent ==
    (lpc = "done" /\ loads >= 2 /\ clean) =>
        <<exits, rooms, archetypes, prototypes>> = after_first

\* Two clean loads of the two-room world into the store in use: room 1 was
\* overwritten (its item references are gone) and the room that the
\* document does not name is still there.
C10_Witness ==
    /\ lpc = "done" /\ loads = 2 /\ clean
    /\ docs.rooms = WorldRooms
    /\ 3 \in DOMAIN rooms
    /\ "ItemIDs" \notin DOMAIN rooms[1].v
    /\ rooms[2].v["ExitID"] = PyList(<<PyStr("E1")>>)
    /\ docs.prototypes = WorldPrototypes
    /\ DOMAIN prototypes = {"torch-01", "rope-01"}

\* The records the kind's store_* call writes for the kind's document are in
\* the kind's table.
StoredKind(kind) ==
    CASE kind = "exits" -> store_exits(exits, docs.exits, FALSE) = exits
      [] kind = "rooms" -> store_rooms(rooms, docs.rooms, FALSE) = rooms
      [] kind = "archetypes" ->
             store_archetypes(archetypes, docs.archetypes, FALSE) = archetypes
      [] kind = "prototypes" ->
             store_item_prototypes(prototypes, docs.prototypes, FALSE) = prototypes

\* C11: when a run of the bulk load is over, every kind whose own document
\* could be read and whose own store call did not fail has its records in its
\* table, whatever failed for the other kinds.
C11_KindsIndependent ==
    (lpc = "done" /\ loads >= 1) =>
        \A kind \in Kinds :
            (docs[kind] # PyNone /\ kind \notin failed) => StoredKind(kind)

\* The entries of the prototypes document.
PrototypeEntries == Get(docs.prototypes, "itemPrototypes", EmptyList).v

\* C12: when the prototypes document has an entry without a PrototypeID and
\* store_item_prototypes has run with no store failure, every entry of the
\* document that has a PrototypeID, before or after the malformed one, is in
\* the prototypes table as the loader converts it.
C12_MalformedEntrySkipped ==
    (lpc = "load_exits" /\ "prototypes" \notin failed) =>
        ((\E i \in DOMAIN PrototypeEntries : "PrototypeID" \notin DOMAIN PrototypeEntries[i].v) =>
            \A i \in DOMAIN PrototypeEntries :
                "PrototypeID" \in DOMAIN PrototypeEntries[i].v =>
                    TableGet(prototypes, KeyOf(PrototypeEntries[i].v["PrototypeID"]))
                        = Serialize(convert_to_dynamodb_format(PrototypeEntries[i])))

\* C13: every read that is made by a scan returns every record of its table:
\* when a run of the loader is over, each load_* whose scan answered holds all
\* the records of its table, whatever the size of the table.
C13_ScanReturnsAll ==
    lpc = "done" =>
        /\ "exits" \in loaded.read => DOMAIN loaded.exits = DOMAIN exits
        /\ "rooms" \in loaded.read => DOMAIN loaded.rooms = DOMAIN rooms
        /\ "archetypes" \in loaded.read =>
               DOMAIN loaded.archetypes.archetypes = DOMAIN archetypes
        /\ "prototypes" \in loaded.read =>
               loaded.prototypes.itemPrototypes = Records(prototypes)

\* The exit records a read-back room carries: the dicts in its list fields.
ExitsAttachedTo(r) ==
    UNION {IF r.v[f].k = "list"
           THEN {r.v[f].v[i] : i \in {j \in DOMAIN r.v[f].v : r.v[f].v[j].k = "dict"}}
           ELSE {} : f \in DOMAIN r.v}

\* The exit records of the exits table that the room's ExitID list names.
OwnExits(r) ==
    LET ids == Get(r, "ExitID", EmptyList).v
    IN  {exits[x] : x \in {KeyOf(ids[i]) : i \in DOMAIN ids} \cap DOMAIN exits}

\* C14: after the exits and rooms documents are stored and read back with no
\* failure, every room read back has the fields the loader stored for it and
\* carries exactly its own exit records; Room 2 of the two-room world carries
\* one exit, East to Room 1 and visible, and Room 1 carries none.
C14_RoundTrip ==
    (/\ lpc = "done"
     /\ {"exits", "rooms"} \subseteq loaded.read
     /\ failed \cap {"exits", "rooms"} = {}) =>
        \A x \in DOMAIN loaded.rooms :
            /\ \A f \in RoomFields : loaded.rooms[x].v[f] = rooms[x].v[f]
            /\ ExitsAttachedTo(loaded.rooms[x]) = OwnExits(loaded.rooms[x])

\* y is x with every float leaf replaced by its decimal and nothing else
\* changed: same keys, same lengths, same other leaves.
RECURSIVE Converted(_, _)
Converted(x, y) ==
    CASE x.k = "dict" ->
             /\ y.k = "dict"
             /\ DOMAIN y.v = DOMAIN x.v
             /\ \A f \in DOMAIN x.v : Converted(x.v[f], y.v[f])
      [] x.k = "list" ->
             /\ y.k = "list"
             /\ Len(y.v) = Len(x.v)
             /\ \A i \in DOMAIN x.v : Converted(x.v[i], y.v[i])
      [] x.k = "float" -> y = Decimal(x.v)
      [] OTHER -> y = x

\* C15: convert_to_dynamodb_format replaces every float leaf of a document,
\* at any depth, by its decimal and changes nothing else; no record of any
\* table holds a float, and neither does the Item made from any stored
\* prototype.  (The documents are the inputs of the run and no step changes
\* them: the function is checked on each of them where the run begins.)
C15_NoFloatStored ==
    /\ lpc = "idle" =>
           \A kind \in Kinds :
               docs[kind] # PyNone =>
                   LET converted == convert_to_dynamodb_format(docs[kind])
                   IN  Converted(docs[kind], converted) /\ ~HasFloat(converted)
    /\ \A r \in Records(exits) \cup Records(rooms) \cup Records(archetypes)
                \cup Records(prototypes) \cup Records(items) : ~HasFloat(r)
    /\ \A q \in Records(prototypes) :
           ~HasFloat(create_new_item_from_prototype(q, uuid4(1)))

\* A load into the empty store is over that stored floats of the documents as
\* decimals: the mass of the torch, in a list, and the strength of the
\* warrior, in a nested map.
C15_Witness ==
    /\ lpc = "done"
    /\ HasFloat(docs.prototypes) /\ HasFloat(docs.archetypes)
    /\ "torch-01" \in DOMAIN prototypes
    /\ prototypes["torch-01"].v["Mass"] = Decimal(5)
    /\ "Warrior" \in DOMAIN archetypes
    /\ archetypes["Warrior"].v["Attributes"].v["Strength"] = Decimal(15)
    /\ items = EmptyTable

\* C16: when the room id entered matches no record of the rooms table, or the
\* prototype id entered matches no record of the prototypes table, the tool
\* goes back to the room selection, having made no item, and no table is
\* written.
C16_NotFoundWritesNothing ==
    [][\A p \in Callers :
          /\ (/\ pc[p] = "start" /\ pc'[p] # "put" /\ runs' = runs + 1
              /\ entered_room_id'[p] # PyNone
              /\ entered_room_id'[p].v \notin DOMAIN rooms) =>
                 /\ pc'[p] = "start"
                 /\ room'[p] = PyNone
                 /\ UNCHANGED storeVars
          /\ (/\ pc[p] = "prototypes" /\ pc'[p] # "prototypes"
              /\ entered_prototype_id'[p] # PyNone
              /\ KeyOf(entered_prototype_id'[p]) \notin DOMAIN prototypes) =>
                 /\ pc'[p] = "start"
                 /\ new_item'[p] = PyNone
                 /\ UNCHANGED storeVars]_vars

\* One caller is back at the selection after a room id that matches no room,
\* another after a prototype id that matches no prototype.
C16_Witness ==
    \E p, q \in Callers :
        /\ pc[p] = "start" /\ entered_room_id[p] = PyInt(9)
        /\ pc[q] = "start" /\ entered_prototype_id[q] = PyStr("nope")
        /\ items = EmptyTable

\* C17: when the item write fails the attach is aborted: the step of the
\* failed put changes no table and is the only store call of the run, and the
\* run then reports failure with no further store call (the room is not read
\* or written and no delete is issued) and no table changed.
C17_PutFailureAborts ==
    [][\A p \in Callers :
          /\ (pc[p] = "put" /\ pc'[p] # "put" /\ calls'[p] = <<"put_item:error">>) =>
                 /\ pc'[p] = "return_false"
                 /\ UNCHANGED storeVars
          /\ (/\ pc[p] = "return_false" /\ pc'[p] # "return_false"
              /\ calls[p] = <<"put_item:error">>) =>
                 /\ pc'[p] = "start"
                 /\ result'[p] = "failure"
                 /\ calls'[p] = calls[p]
                 /\ ItemKeyOf(p) \notin DOMAIN items'
                 /\ UNCHANGED storeVars]_vars

\* A run has reported failure after its item write failed, for a room that
\* holds the item of another run.
C17_Witness ==
    \E p \in Callers :
        /\ pc[p] = "start" /\ result[p] = "failure"
        /\ calls[p] = <<"put_item:error">>
        /\ Len(ItemIDsOf(TargetOf(p))) = 1

\* C18: the list an attach writes to the room is the list the store held when
\* the attach read the room, whatever the earlier scan showed, with the new
\* ItemID appended at the end; so attaches that do not overlap leave all their
\* ItemIDs in the room's list, in attach order.
C18_FreshReadAppended ==
    [][\A p \in Callers :
          /\ (pc[p] = "get" /\ pc'[p] = "update") =>
                 current_item_ids'[p] =
                     PyList(Append(ItemIDsOf(TargetOf(p)), ItemIdOf(p)))
          /\ (pc[p] = "update" /\ pc'[p] = "return_true") =>
                 PyList(ItemIDsAfter(TargetOf(p))) = current_item_ids[p]]_vars

\* A caller's scan showed the room with no item; another caller then attached
\* an item to it; the first caller's attach, made after that, succeeded and
\* the room's list holds both ItemIDs in attach order.
C18_Witness ==
    \E p, q \in Callers :
        /\ p # q
        /\ result[p] = "success" /\ result[q] = "success"
        /\ "ItemIDs" \notin DOMAIN room[p].v
        /\ ItemIDsOf(TargetOf(p)) = <<ItemIdOf(q), ItemIdOf(p)>>

\* C19: an attach run that has ended is in one of three end states: Attached
\* (the item is stored and referenced by its room, success reported), Failed
\* (no record for the new ItemID, failure reported) or OrphanedItem (the item
\* is stored and referenced by no room, failure reported), and OrphanedItem
\* only after the compensating delete was issued and failed.
C19_EndStates ==
    \A p \in Callers :
        (pc[p] = "start" /\ result[p] # "none") =>
            \/ /\ result[p] = "success"
               /\ ItemKeyOf(p) \in DOMAIN items
               /\ ItemIdOf(p) \in Refs(TargetOf(p))
            \/ /\ result[p] = "failure"
               /\ ItemKeyOf(p) \notin DOMAIN items
            \/ /\ result[p] = "failure"
               /\ ItemKeyOf(p) \in DOMAIN items
               /\ \A r \in DOMAIN rooms : ItemIdOf(p) \notin Refs(r)
               /\ Called(p, "delete_item:error")

\* C20: every step of an attach run leaves the exits, archetypes and
\* prototypes tables as they are; it changes no room but the target room of
\* the caller whose update it is, and of that room nothing but the ItemIDs
\* list; and it adds, changes or removes no Item record but the caller's own
\* new Item.
C20_AttachFrame ==
    [][/\ UNCHANGED <<exits, archetypes, prototypes>>
       /\ DOMAIN rooms' = DOMAIN rooms
       /\ \A r \in DOMAIN rooms :
              rooms'[r] # rooms[r] =>
                  /\ \E p \in Callers :
                         pc[p] = "update" /\ pc'[p] # "update" /\ r = TargetOf(p)
                  /\ DOMAIN rooms'[r].v = DOMAIN rooms[r].v \cup {"ItemIDs"}
                  /\ \A f \in DOMAIN rooms[r].v \ {"ItemIDs"} :
                         rooms'[r].v[f] = rooms[r].v[f]
       /\ \A x \in DOMAIN items \cup DOMAIN items' :
              \/ x \in DOMAIN items /\ x \in DOMAIN items' /\ items'[x] = items[x]
              \/ \E p \in Callers :
                     /\ pc'[p] # pc[p]
                     /\ pc[p] \in {"put", "rollback"}
                     /\ x = ItemKeyOf(p)]_vars

\* One run has attached its item to room 1 and another has rolled its item
\* back: room 1 has its title and exits as loaded, room 2 has no list.
C20_Witness ==
    \E p, q \in Callers :
        /\ p # q
        /\ result[p] = "success" /\ TargetOf(p) = 1
        /\ LastCall(q) = "delete_item:ok"
        /\ rooms[1].v["Title"] = PyStr("Hallway")
        /\ rooms[1].v["ExitID"] = EmptyList
        /\ "ItemIDs" \notin DOMAIN rooms[2].v

\* The entries of the rooms document that store_rooms writes: those before
\* the first entry that lacks a field store_rooms indexes.
RoomEntries == Get(docs.rooms, "rooms", EmptyList).v
ReloadedEntries == {i \in 1..GoodPrefixLen(RoomEntries, RoomFields) : TRUE}
ReloadedRooms == {KeyOf(RoomEntries[i].v["RoomID"]) : i \in ReloadedEntries}

\* C21: a store_rooms call that the store accepts replaces each room it
\* reloads wholesale: the record is then the document's RoomID, Area, Title,
\* Description and ExitID and the document's ItemID list (empty when the
\* document gives none) and nothing else, so an ItemIDs list put on the room
\* by earlier attach runs is gone; the Item records stay in the items table;
\* and a room the document does not name is left as it was.
C21_ReloadReplacesRoom ==
    [][(lpc = "rooms" /\ lpc' = "archetypes" /\ "rooms" \notin failed') =>
          /\ \A i \in ReloadedEntries :
                 LET x == KeyOf(RoomEntries[i].v["RoomID"]) IN
                 /\ x \in DOMAIN rooms'
                 /\ DOMAIN rooms'[x].v = RoomFields \cup {"ItemID"}
                 /\ "ItemIDs" \notin DOMAIN rooms'[x].v
                 /\ \A f \in RoomFields :
                        rooms'[x].v[f] =
                            Serialize(convert_to_dynamodb_format(RoomEntries[i].v[f]))
                 /\ rooms'[x].v["ItemID"] =
                        Serialize(convert_to_dynamodb_format(
                            Get(RoomEntries[i], "ItemID", EmptyList)))
          /\ \A x \in DOMAIN rooms \ ReloadedRooms :
                 x \in DOMAIN rooms' /\ rooms'[x] = rooms[x]
          /\ DOMAIN rooms' = DOMAIN rooms \cup ReloadedRooms
          /\ items' = items]_vars

\* store_rooms has just reloaded the two-room world into the store in use:
\* room 1 has lost the ItemIDs list an attach gave it, the attached Item is
\* still in the items table, and room 3, which the document does not name, is
\* as it was.
C21_Witness ==
    /\ lpc = "archetypes" /\ loads = 0 /\ "rooms" \notin failed
    /\ docs.rooms = WorldRooms
    /\ "ItemIDs" \notin DOMAIN rooms[1].v
    /\ rooms[1].v["ItemID"] = EmptyList
    /\ KeyOf(uuid4(1)) \in DOMAIN items
    /\ 3 \in DOMAIN rooms
    /\ rooms[3].v["Title"] = PyStr("Cellar")

\* The entries of the exits document, and whether each of them names its
\* exit, direction and target room under distinct ExitIDs.
ExitEntries == Get(docs.exits, "exits", EmptyList).v
ExitsWellFormed ==
    /\ \A i \in 1..Len(ExitEntries) :
           {"ExitID", "Direction", "TargetRoom"} \subseteq DOMAIN ExitEntries[i].v
    /\ \A i, j \in 1..Len(ExitEntries) :
           ExitEntries[i].v["ExitID"] = ExitEntries[j].v["ExitID"] => i = j

\* C22: when the store accepts store_exits for a document whose N exits each
\* name their ExitID, direction and target room, every one of them is stored
\* with that direction and target room, and with Visible true when the
\* document gives no visibility flag, so the exits after an unflagged one are
\* stored as well.
C22_UnflaggedExitStoredVisible ==
    [][(lpc = "exits" /\ lpc' = "rooms" /\ "exits" \notin failed'
            /\ ExitsWellFormed) =>
          \A i \in 1..Len(ExitEntries) :
              LET e == ExitEntries[i]
                  x == KeyOf(e.v["ExitID"])
              IN  /\ x \in DOMAIN exits'
                  /\ exits'[x].v["Direction"] = e.v["Direction"]
                  /\ exits'[x].v["TargetRoom"] = Serialize(e.v["TargetRoom"])
                  /\ exits'[x].v["Visible"] = Get(e, "Visible", PyBool(TRUE))]_vars

=============================================================================
